---- MODULE Spec2Model ----
(***************************************************************************)
(* A model of the in-memory HNSW vector index of                           *)
(* core/src/idx/trees/hnsw.rs: the multi-layer proximity graph (Hnsw),     *)
(* its neighbour selection policies (SelectNeighbors), the document map    *)
(* (HnswDocs) and the vector/document indirection (HnswIndex).             *)
(*                                                                         *)
(* Conventions.                                                            *)
(*  - Option<T> is a sequence: <<>> is None and <<x>> is Some(x).          *)
(*  - A vector is a tuple of integers.  A distance is the squared          *)
(*    Euclidean distance: the code only compares distances with each       *)
(*    other and the square root is strictly increasing, so every           *)
(*    comparison of the code has the same outcome; 0 stays 0.              *)
(*  - A DoublePriorityQueue is a sequence of <<dist, id>> pairs kept in    *)
(*    ascending order; entries of equal distance are ordered by id.        *)
(*  - A HashSet is iterated in ascending order of its ids.                 *)
(*  - Vec<UndirectedGraph> is a sequence of functions                      *)
(*    node -> set of nodes; layer lc of the code is layers[lc + 1].        *)
(*  - A panic (unreachable!, a failed assert!, indexing a missing key)     *)
(*    sets aborted; the other variables keep what the operation had        *)
(*    written when it panicked, and no operation runs after it.            *)
(***************************************************************************)
EXTENDS Integers, Sequences, FiniteSets, TLC

VARIABLES
    m,                \* Hnsw.m
    m0,               \* Hnsw.m0
    efc,              \* Hnsw.efc
    neighbors,        \* Hnsw.neighbors : SelectNeighbors
    layers,           \* Hnsw.layers
    enter_point,      \* Hnsw.enter_point
    elements,         \* Hnsw.elements
    next_element_id,  \* Hnsw.next_element_id
    doc_ids,          \* HnswDocs.doc_ids
    ids_doc,          \* HnswDocs.ids_doc
    available,        \* HnswDocs.available
    vec_docs,         \* HnswIndex.vec_docs
    replaced,         \* history: the <<layer, id>> whose edge set set_node has written
    aborted,          \* a panic has been raised
    last              \* the last operation: its name, arguments and result

vars == <<m, m0, efc, neighbors, layers, enter_point, elements, next_element_id,
          doc_ids, ids_doc, available, vec_docs, replaced, aborted, last>>

hnsw_vars == <<m, m0, efc, neighbors, layers, enter_point, elements,
               next_element_id, replaced>>

docs_vars == <<doc_ids, ids_doc, available>>

(***************************************************************************)
(* Bounds of the model.                                                    *)
(***************************************************************************)
MaxElements == 3      \* number of Hnsw.insert calls in one behaviour
MaxSlots == 4         \* length of HnswDocs.ids_doc in one behaviour
MaxDocs == 2          \* length of HnswDocs.ids_doc where documents are indexed
MaxInserts == 4       \* number of Hnsw.insert calls where the index is only built
MaxCandidates == 3    \* number of elements the candidates of a selection are drawn from

Min(a, b) == IF a < b THEN a ELSE b

Max(a, b) == IF a < b THEN b ELSE a

\* the vectors inserted (dimension 1)
Points == {<<0>>, <<1>>, <<2>>, <<4>>}

\* the vectors inserted and searched for where the index is searched
Queries == {<<0>>, <<1>>, <<2>>}

\* the levels get_random_level draws
Levels == {0, 1}

\* the k and the efs of a search
Ks == {1, 3}

Efs == {0, 1, 3}

(***************************************************************************)
(* Distance::calculate, Euclidean (squared, see the conventions).          *)
(***************************************************************************)
RECURSIVE SumSq(_, _, _)
SumSq(u, v, i) ==
    IF i > Len(u) THEN 0
    ELSE (u[i] - v[i]) * (u[i] - v[i]) + SumSq(u, v, i + 1)

calculate(u, v) == SumSq(u, v, 1)

(***************************************************************************)
(* HashSet iteration.                                                      *)
(***************************************************************************)
RECURSIVE iter(_)
iter(S) ==
    IF S = {} THEN <<>>
    ELSE LET x == CHOOSE y \in S : \A z \in S : y <= z
         IN <<x>> \o iter(S \ {x})

(***************************************************************************)
(* DoublePriorityQueue.                                                    *)
(***************************************************************************)
Before(a, b) == a[1] < b[1] \/ (a[1] = b[1] /\ a[2] < b[2])

push(q, dist, id) ==
    LET n == <<dist, id>>
        k == Cardinality({i \in 1..Len(q) : ~Before(n, q[i])})
    IN SubSeq(q, 1, k) \o <<n>> \o SubSeq(q, k + 1, Len(q))

from(pn) == <<pn>>

pop_last(q) == SubSeq(q, 1, Len(q) - 1)

first(q) == IF q = <<>> THEN <<>> ELSE <<q[1]>>

queue_ids(q) == {q[i][2] : i \in 1..Len(q)}

RECURSIVE push_all(_, _)
push_all(q, ext) ==
    IF ext = <<>> THEN q
    ELSE push_all(push(q, ext[1][1], ext[1][2]), Tail(ext))

take(q, n) == SubSeq(q, 1, Min(n, Len(q)))

\* the queue of the ids of a sequence, each with its distance to q
RECURSIVE queue_of(_, _)
queue_of(q, ids) ==
    IF ids = <<>> THEN <<>>
    ELSE push(queue_of(q, Tail(ids)), calculate(elements[Head(ids)], q), Head(ids))

(***************************************************************************)
(* UndirectedGraph.  A graph is a function node -> set of nodes.           *)
(***************************************************************************)
EmptyGraph == [n \in {} |-> {}]

add_empty_node(g, id) ==
    IF id \in DOMAIN g THEN g
    ELSE [n \in DOMAIN g \cup {id} |-> IF n = id THEN {} ELSE g[n]]

\* the new node takes the edges, and each of them takes the new node
add_node(g, id, edges) ==
    [n \in DOMAIN g \cup {id} |->
        IF n = id THEN edges \ {id}
        ELSE IF n \in edges THEN g[n] \cup {id}
        ELSE g[n]]

\* the node's own edge set is replaced; no other node changes
set_node(g, id, edges) ==
    [n \in DOMAIN g \cup {id} |-> IF n = id THEN edges ELSE g[n]]

\* the node goes, and so does its id in the edge sets of its own edges
remove_node(g, id) ==
    [n \in DOMAIN g \ {id} |-> IF n \in g[id] THEN g[n] \ {id} ELSE g[n]]

(***************************************************************************)
(* Hnsw::search_layer and its four entries.  A search returns              *)
(* [abort, w]: abort is the unreachable!() of an empty result queue.       *)
(***************************************************************************)
\* a variant of visit that marks an element visited only when it admits it
visit_marks_admitted(els, q, e_id, st, ef) ==
    IF e_id \in st.visited THEN st
    ELSE LET seen == st.visited \cup {e_id} IN
        IF e_id \notin DOMAIN els THEN [st EXCEPT !.visited = seen]
        ELSE LET e_dist == calculate(els[e_id], q) IN
            IF e_dist < st.f_dist \/ Len(st.w) < ef
            THEN LET w1 == push(st.w, e_dist, e_id)
                     w2 == IF Len(w1) > ef THEN pop_last(w1) ELSE w1
                 IN [candidates |-> push(st.candidates, e_dist, e_id),
                     visited |-> seen,
                     w |-> w2,
                     f_dist |-> w2[Len(w2)][1]]
            ELSE st

\* a variant of visit that admits an element only when it is nearer than
\* the furthest entry
visit_nearer_only(els, q, e_id, st, ef) ==
    IF e_id \in st.visited THEN st
    ELSE LET seen == st.visited \cup {e_id} IN
        IF e_id \notin DOMAIN els THEN [st EXCEPT !.visited = seen]
        ELSE LET e_dist == calculate(els[e_id], q) IN
            IF e_dist < st.f_dist
            THEN LET w1 == push(st.w, e_dist, e_id)
                     w2 == IF Len(w1) > ef THEN pop_last(w1) ELSE w1
                 IN [candidates |-> push(st.candidates, e_dist, e_id),
                     visited |-> seen,
                     w |-> w2,
                     f_dist |-> w2[Len(w2)][1]]
            ELSE [st EXCEPT !.visited = seen]

\* a variant of visit that also admits an element as far as the furthest entry
visit_ties(els, q, e_id, st, ef) ==
    IF e_id \in st.visited THEN st
    ELSE LET seen == st.visited \cup {e_id} IN
        IF e_id \notin DOMAIN els THEN [st EXCEPT !.visited = seen]
        ELSE LET e_dist == calculate(els[e_id], q) IN
            IF e_dist <= st.f_dist \/ Len(st.w) < ef
            THEN LET w1 == push(st.w, e_dist, e_id)
                     w2 == IF Len(w1) > ef THEN pop_last(w1) ELSE w1
                 IN [candidates |-> push(st.candidates, e_dist, e_id),
                     visited |-> seen,
                     w |-> w2,
                     f_dist |-> w2[Len(w2)][1]]
            ELSE [st EXCEPT !.visited = seen]

\* one turn of the inner for loop: neighbour e_id of the popped candidate
visit(els, q, e_id, st, ef) ==
    IF e_id \in st.visited THEN st
    ELSE LET seen == st.visited \cup {e_id} IN
        IF e_id \notin DOMAIN els THEN [st EXCEPT !.visited = seen]
        ELSE LET e_dist == calculate(els[e_id], q) IN
            IF e_dist < st.f_dist \/ Len(st.w) < ef
            THEN LET w1 == push(st.w, e_dist, e_id)
                     w2 == IF Len(w1) > ef THEN pop_last(w1) ELSE w1
                 IN [candidates |-> push(st.candidates, e_dist, e_id),
                     visited |-> seen,
                     w |-> w2,
                     f_dist |-> w2[Len(w2)][1]]
            ELSE [st EXCEPT !.visited = seen]

RECURSIVE visit_all(_, _, _, _, _)
visit_all(els, q, neighbourhood, st, ef) ==
    IF neighbourhood = <<>> THEN st
    ELSE visit_all(els, q, Tail(neighbourhood),
                   visit(els, q, Head(neighbourhood), st, ef), ef)

\* a variant of search_loop that also stops at a candidate as far as the
\* furthest entry of the result
RECURSIVE search_loop_stops_early(_, _, _, _, _)
search_loop_stops_early(els, q, st, ef, l) ==
    IF st.candidates = <<>> THEN st.w
    ELSE LET c == Head(st.candidates)
             st1 == [st EXCEPT !.candidates = Tail(@)]
         IN IF c[1] >= st.f_dist THEN st.w
            ELSE IF c[2] \in DOMAIN l
                 THEN search_loop_stops_early(els, q,
                          visit_all(els, q, iter(l[c[2]]), st1, ef), ef, l)
                 ELSE search_loop_stops_early(els, q, st1, ef, l)

RECURSIVE search_loop(_, _, _, _, _)
search_loop(els, q, st, ef, l) ==
    IF st.candidates = <<>> THEN st.w
    ELSE LET c == Head(st.candidates)
             st1 == [st EXCEPT !.candidates = Tail(@)]
         IN IF c[1] > st.f_dist THEN st.w
            ELSE IF c[2] \in DOMAIN l
                 THEN search_loop(els, q, visit_all(els, q, iter(l[c[2]]), st1, ef), ef, l)
                 ELSE search_loop(els, q, st1, ef, l)

search_layer(els, q, candidates, visited, w, ef, l) ==
    IF w = <<>> THEN [abort |-> TRUE, w |-> <<>>]
    ELSE [abort |-> FALSE,
          w |-> search_loop(els, q,
                            [candidates |-> candidates, visited |-> visited,
                             w |-> w, f_dist |-> w[Len(w)][1]],
                            ef, l)]

\* a variant of search_layer_single that keeps the width of the descent
search_layer_single_ef_one(els, q, ep, ef, l) ==
    search_layer(els, q, from(ep), {ep[2]}, from(ep), 1, l)

search_layer_single(els, q, ep, ef, l) ==
    search_layer(els, q, from(ep), {ep[2]}, from(ep), ef, l)

search_layer_multi(els, q, candidates, ef, l) ==
    search_layer(els, q, candidates, queue_ids(candidates), candidates, ef, l)

search_layer_single_ignore_ep(els, q, ep, l) ==
    search_layer(els, q, from(ep), {ep[2]}, from(ep), 1, l)

search_layer_multi_ignore_ep(els, q, ep, ef, l) ==
    search_layer(els, q, from(ep), queue_ids(from(ep)), <<>>, ef, l)

(***************************************************************************)
(* SelectNeighbors.  A selection returns [abort, r]: abort is the          *)
(* unreachable!() of extand on a candidate that is no node of the layer.   *)
(***************************************************************************)
SelectNeighborsFrom(heuristic_flag, extend_candidates, keep_pruned_connections) ==
    IF heuristic_flag
    THEN IF keep_pruned_connections
         THEN IF extend_candidates THEN "HeuristicExtKeep" ELSE "HeuristicKeep"
         ELSE IF extend_candidates THEN "HeuristicExt" ELSE "Heuristic"
    ELSE "Simple"

\* a variant of simple that takes the candidates from the far end
simple_furthest(w, m_max) ==
    queue_ids(SubSeq(w, Len(w) - Min(m_max, Len(w)) + 1, Len(w)))

simple(w, m_max) == queue_ids(take(w, m_max))

\* closest is an Option: <<>> stands for the initial f64::MAX / f64::INFINITY
RECURSIVE heuristic_loop(_, _, _, _)
heuristic_loop(c, m_max, r, closest) ==
    IF c = <<>> THEN r
    ELSE LET e_dist == Head(c)[1]
             e_id == Head(c)[2]
         IN IF closest = <<>> \/ e_dist < closest[1]
            THEN IF Cardinality(r \cup {e_id}) >= m_max
                 THEN r \cup {e_id}
                 ELSE heuristic_loop(Tail(c), m_max, r \cup {e_id}, <<e_dist>>)
            ELSE heuristic_loop(Tail(c), m_max, r, closest)

\* a variant of heuristic that keeps every candidate until it holds m_max
heuristic_keep_all(c, m_max) == queue_ids(take(c, Max(m_max, 1)))

heuristic(c, m_max) == heuristic_loop(c, m_max, {}, <<>>)

\* the while loop of heuristic_keep: returns [r, wd]
RECURSIVE heuristic_keep_loop(_, _, _, _, _)
heuristic_keep_loop(c, m_max, r, closest, wd) ==
    IF c = <<>> THEN [r |-> r, wd |-> wd]
    ELSE LET e_dist == Head(c)[1]
             e_id == Head(c)[2]
         IN IF closest = <<>> \/ e_dist < closest[1]
            THEN IF Cardinality(r \cup {e_id}) >= m_max
                 THEN [r |-> r \cup {e_id}, wd |-> wd]
                 ELSE heuristic_keep_loop(Tail(c), m_max, r \cup {e_id}, <<e_dist>>, wd)
            ELSE heuristic_keep_loop(Tail(c), m_max, r, closest, Append(wd, e_id))

\* a variant of heuristic_keep that fills from the end of the rejected ids
heuristic_keep_lifo(c, m_max) ==
    LET k == heuristic_keep_loop(c, m_max, {}, <<>>, <<>>)
        d == IF m_max >= Cardinality(k.r)
             THEN Min(m_max - Cardinality(k.r), Len(k.wd))
             ELSE Len(k.wd)
    IN k.r \cup {k.wd[Len(k.wd) + 1 - i] : i \in 1..d}

\* a variant of heuristic_keep that leaves the rejected ids out
heuristic_keep_unfilled(c, m_max) ==
    heuristic_keep_loop(c, m_max, {}, <<>>, <<>>).r

\* m_max - r.len() is a usize subtraction: below zero it wraps to a huge
\* number (release build), so that d is wd.len()
heuristic_keep(c, m_max) ==
    LET k == heuristic_keep_loop(c, m_max, {}, <<>>, <<>>)
        d == IF m_max >= Cardinality(k.r)
             THEN Min(m_max - Cardinality(k.r), Len(k.wd))
             ELSE Len(k.wd)
    IN k.r \cup {k.wd[i] : i \in 1..d}

\* the candidates gain the live neighbours of the candidates, q_id and the
\* candidates themselves left out, each with its distance to q_pt
\* a variant of extand that lets the extension take q_id in
extand_with_q(els, lc, q_id, q_pt, c) ==
    LET ex == queue_ids(c)
        adj == UNION {lc[e] : e \in ex \cap DOMAIN lc}
        ext == {e_adj \in adj : e_adj \notin ex /\ e_adj \in DOMAIN els}
        dists == [i \in 1..Cardinality(ext) |->
                    <<calculate(q_pt, els[iter(ext)[i]]), iter(ext)[i]>>]
    IN push_all(c, dists)

\* a variant of extand that does not skip the ids it has seen
extand_seen(els, lc, q_id, q_pt, c) ==
    LET ex == queue_ids(c)
        adj == UNION {lc[e] : e \in ex \cap DOMAIN lc}
        ext == {e_adj \in adj : e_adj # q_id /\ e_adj \in DOMAIN els}
        dists == [i \in 1..Cardinality(ext) |->
                    <<calculate(q_pt, els[iter(ext)[i]]), iter(ext)[i]>>]
    IN push_all(c, dists)

extand(els, lc, q_id, q_pt, c) ==
    LET ex == queue_ids(c)
        adj == UNION {lc[e] : e \in ex \cap DOMAIN lc}
        ext == {e_adj \in adj : e_adj # q_id /\ e_adj \notin ex /\ e_adj \in DOMAIN els}
        dists == [i \in 1..Cardinality(ext) |->
                    <<calculate(q_pt, els[iter(ext)[i]]), iter(ext)[i]>>]
    IN push_all(c, dists)

extand_aborts(lc, c) == \E e \in queue_ids(c) : e \notin DOMAIN lc

heuristic_ext(els, lc, q_id, q_pt, c, m_max) ==
    heuristic(extand(els, lc, q_id, q_pt, c), m_max)

heuristic_ext_keep(els, lc, q_id, q_pt, c, m_max) ==
    heuristic_keep(extand(els, lc, q_id, q_pt, c), m_max)

select(sel, els, lc, q_id, q_pt, c, m_max) ==
    IF sel \in {"HeuristicExt", "HeuristicExtKeep"} /\ extand_aborts(lc, c)
    THEN [abort |-> TRUE, r |-> {}]
    ELSE [abort |-> FALSE,
          r |-> CASE sel = "Simple" -> simple(c, m_max)
                  [] sel = "Heuristic" -> heuristic(c, m_max)
                  [] sel = "HeuristicExt" -> heuristic_ext(els, lc, q_id, q_pt, c, m_max)
                  [] sel = "HeuristicKeep" -> heuristic_keep(c, m_max)
                  [] sel = "HeuristicExtKeep" ->
                        heuristic_ext_keep(els, lc, q_id, q_pt, c, m_max)]

(***************************************************************************)
(* Hnsw: insertion.                                                        *)
(***************************************************************************)
\* a variant of m_max_of that caps layer 0 like the layers above it
m_max_of_m(lc) == m

m_max_of(lc) == IF lc = 0 THEN m0 ELSE m

RECURSIVE build_priority_list_loop(_, _, _, _)
build_priority_list_loop(els, e_id, ns, w) ==
    IF ns = <<>> THEN w
    ELSE build_priority_list_loop(els, e_id, Tail(ns),
            IF Head(ns) \in DOMAIN els
            THEN push(w, calculate(els[e_id], els[Head(ns)]), Head(ns))
            ELSE w)

build_priority_list(els, e_id, e_conn) ==
    build_priority_list_loop(els, e_id, iter(e_conn), <<>>)

\* a variant of get_pn that pairs the element with the distance 0
get_pn_zero(els, q, e_id) == <<0, e_id>>

get_pn(els, q, e_id) == <<calculate(els[e_id], q), e_id>>

\* for lc in (lo..=hi).rev(): ep = search_layer_single(q, ep, 1, layers[lc]).first()
RECURSIVE descend(_, _, _, _, _, _)
descend(els, ls, q, ep, hi, lo) ==
    IF hi < lo THEN ep
    ELSE descend(els, ls, q, search_layer_single(els, q, ep, 1, ls[hi + 1]).w[1],
                 hi - 1, lo)

\* a variant of shrink_one that leaves the attached neighbour as it is
shrink_one_skip(els, st, n_id, m_max) == st

\* a variant of shrink_one that shrinks a neighbour that has reached m_max
shrink_one_at_cap(els, st, n_id, m_max) ==
    IF st.abort THEN st
    ELSE IF n_id \notin DOMAIN st.g THEN [st EXCEPT !.abort = TRUE]
    ELSE IF Cardinality(st.g[n_id]) >= m_max
    THEN IF n_id \notin DOMAIN els THEN [st EXCEPT !.abort = TRUE]
         ELSE LET write(s) ==
                      IF s.abort THEN [st EXCEPT !.abort = TRUE]
                      ELSE [abort |-> FALSE,
                            g |-> set_node(st.g, n_id, s.r),
                            rep |-> st.rep \cup {n_id}]
              IN write(select(neighbors, els, st.g, n_id, els[n_id],
                              build_priority_list(els, n_id, st.g[n_id]), m_max))
    ELSE st

\* the shrink loop of insert_element over the attached neighbours;
\* st = [abort, g, rep]: the layer and the nodes set_node has written
shrink_one(els, st, n_id, m_max) ==
    IF st.abort THEN st
    ELSE IF n_id \notin DOMAIN st.g THEN [st EXCEPT !.abort = TRUE]
    ELSE IF Cardinality(st.g[n_id]) > m_max
    THEN IF n_id \notin DOMAIN els THEN [st EXCEPT !.abort = TRUE]
         ELSE LET write(s) ==
                      IF s.abort THEN [st EXCEPT !.abort = TRUE]
                      ELSE [abort |-> FALSE,
                            g |-> set_node(st.g, n_id, s.r),
                            rep |-> st.rep \cup {n_id}]
              IN write(select(neighbors, els, st.g, n_id, els[n_id],
                              build_priority_list(els, n_id, st.g[n_id]), m_max))
    ELSE st

RECURSIVE shrink(_, _, _, _)
shrink(els, st, ns, m_max) ==
    IF ns = <<>> THEN st
    ELSE shrink(els, shrink_one(els, st, Head(ns), m_max), Tail(ns), m_max)

\* a variant of link_layer that writes the edges of the new node alone: the
\* selected neighbours do not take the new node
link_layer_one_way(els, st, q_id, q_pt, lc) ==
    LET layer == st.ls[lc + 1]
        write(w, s) ==
            IF s.abort \/ q_id \in DOMAIN layer
            THEN [st EXCEPT !.abort = TRUE]
            ELSE [abort |-> FALSE,
                  ls |-> [st.ls EXCEPT ![lc + 1] = set_node(layer, q_id, s.r)],
                  eps |-> w.w,
                  rep |-> st.rep]
        choose(w) ==
            IF w.abort THEN [st EXCEPT !.abort = TRUE]
            ELSE write(w, select(neighbors, els, layer, q_id, q_pt, w.w, m_max_of(lc)))
    IN IF st.abort THEN st
       ELSE choose(search_layer_multi(els, q_pt, st.eps, efc, layer))

\* one turn of the linking loop of insert_element, on layer lc;
\* st = [abort, ls, eps, rep]
link_layer(els, st, q_id, q_pt, lc) ==
    LET layer == st.ls[lc + 1]
        m_max == m_max_of(lc)
        write(w, sh) ==
            [abort |-> sh.abort,
             ls |-> [st.ls EXCEPT ![lc + 1] = sh.g],
             eps |-> w.w,
             rep |-> st.rep \cup {<<lc, n>> : n \in sh.rep}]
        attach(w, s) ==
            IF s.abort \/ q_id \in DOMAIN layer
            THEN [st EXCEPT !.abort = TRUE]
            ELSE write(w, shrink(els, [abort |-> FALSE,
                                       g |-> add_node(layer, q_id, s.r),
                                       rep |-> {}],
                                 iter(s.r), m_max))
        choose(w) ==
            IF w.abort THEN [st EXCEPT !.abort = TRUE]
            ELSE attach(w, select(neighbors, els, layer, q_id, q_pt, w.w, m_max))
    IN IF st.abort THEN st
       ELSE choose(search_layer_multi(els, q_pt, st.eps, efc, layer))

RECURSIVE link(_, _, _, _, _)
link(els, st, q_id, q_pt, lc) ==
    IF lc < 0 \/ st.abort THEN st
    ELSE link(els, link_layer(els, st, q_id, q_pt, lc), q_id, q_pt, lc - 1)

\* returns [abort, ls, ep, rep]
insert_element(els, ls, q_id, q_pt, q_level, ep_id, top_layer_level) ==
    IF ep_id \notin DOMAIN els
    THEN [abort |-> TRUE, ls |-> ls, ep |-> enter_point, rep |-> {}]
    ELSE LET ep == descend(els, ls, q_pt, get_pn(els, q_pt, ep_id),
                           top_layer_level, q_level + 1)
             top(lk) ==
                 IF lk.abort
                 THEN [abort |-> TRUE, ls |-> lk.ls, ep |-> enter_point, rep |-> lk.rep]
                 ELSE IF \E i \in 1..Len(ls) :
                            /\ i - 1 > top_layer_level
                            /\ i - 1 <= q_level
                            /\ q_id \in DOMAIN lk.ls[i]
                 THEN [abort |-> TRUE, ls |-> lk.ls, ep |-> enter_point, rep |-> lk.rep]
                 ELSE [abort |-> FALSE,
                       ls |-> [i \in 1..Len(ls) |->
                                 IF i - 1 > top_layer_level /\ i - 1 <= q_level
                                 THEN add_empty_node(lk.ls[i], q_id)
                                 ELSE lk.ls[i]],
                       ep |-> IF q_level > top_layer_level THEN <<q_id>> ELSE enter_point,
                       rep |-> lk.rep]
         IN top(link(els, [abort |-> FALSE, ls |-> ls, eps |-> from(ep), rep |-> {}],
                     q_id, q_pt, Min(top_layer_level, q_level)))

\* a variant of insert_first_element that adds the node to its top layer alone
insert_first_element_top(ls, id, level) ==
    [abort |-> FALSE,
     ls |-> [i \in 1..Len(ls) |->
                IF i - 1 = level THEN add_empty_node(ls[i], id) ELSE ls[i]],
     ep |-> <<id>>,
     rep |-> {}]

insert_first_element(ls, id, level) ==
    [abort |-> FALSE,
     ls |-> [i \in 1..Len(ls) |->
                IF i - 1 <= level THEN add_empty_node(ls[i], id) ELSE ls[i]],
     ep |-> <<id>>,
     rep |-> {}]

\* returns [abort, ls, els, ep, rep]
insert_level(q_pt, q_level) ==
    LET q_id == next_element_id
        n == Len(layers)
        ls == layers \o [i \in 1..(IF q_level + 1 > n THEN q_level + 1 - n ELSE 0) |->
                            EmptyGraph]
        els == [e \in DOMAIN elements \cup {q_id} |->
                    IF e = q_id THEN q_pt ELSE elements[e]]
        result(r) ==
            [abort |-> r.abort, ls |-> r.ls, els |-> els, ep |-> r.ep, rep |-> r.rep]
    IN result(IF enter_point # <<>>
              THEN insert_element(els, ls, q_id, q_pt, q_level, enter_point[1], n - 1)
              ELSE insert_first_element(ls, q_id, q_level))

(***************************************************************************)
(* Hnsw: removal.                                                          *)
(***************************************************************************)
\* the rewiring of one former neighbour q_id on layer lc; st = [abort, g, rep]
rewire_one(els, st, q_id, m_max) ==
    IF st.abort \/ q_id \notin DOMAIN els THEN st
    ELSE LET q_pt == els[q_id]
             write(s) ==
                 IF s.abort \/ q_id \in s.r THEN [st EXCEPT !.abort = TRUE]
                 ELSE [abort |-> FALSE,
                       g |-> set_node(st.g, q_id, s.r),
                       rep |-> st.rep \cup {q_id}]
             choose(c) ==
                 IF c.abort THEN [st EXCEPT !.abort = TRUE]
                 ELSE write(select(neighbors, els, st.g, q_id, q_pt, c.w, m_max))
         IN choose(search_layer_multi_ignore_ep(els, q_pt, <<0, q_id>>, efc, st.g))

RECURSIVE rewire(_, _, _, _)
rewire(els, st, f_ids, m_max) ==
    IF f_ids = <<>> THEN st
    ELSE rewire(els, rewire_one(els, st, Head(f_ids), m_max), Tail(f_ids), m_max)

\* one turn of the loop of remove over the layers; st = [abort, ls, removed, rep]
remove_from_layer(els, st, e_id, lc) ==
    LET layer == st.ls[lc + 1]
        write(rw) ==
            [abort |-> rw.abort,
             ls |-> [st.ls EXCEPT ![lc + 1] = rw.g],
             removed |-> IF rw.abort THEN st.removed ELSE TRUE,
             rep |-> st.rep \cup {<<lc, n>> : n \in rw.rep}]
    IN IF st.abort \/ e_id \notin DOMAIN layer THEN st
       ELSE write(rewire(els, [abort |-> FALSE, g |-> remove_node(layer, e_id),
                               rep |-> {}],
                         iter(layer[e_id]), m_max_of(lc)))

RECURSIVE remove_loop(_, _, _, _)
remove_loop(els, st, e_id, lc) ==
    IF lc < 0 \/ st.abort THEN st
    ELSE remove_loop(els, remove_from_layer(els, st, e_id, lc), e_id, lc - 1)

\* a variant of remove that clears the enter point when it finds no element
remove_clears(e_id) ==
    IF e_id \notin DOMAIN elements
    THEN [abort |-> FALSE, removed |-> FALSE, ls |-> layers, els |-> elements,
          ep |-> <<>>, rep |-> {}]
    ELSE LET e_pt == elements[e_id]
             n == Len(layers)
             new_enter_point ==
                 IF <<e_id>> = enter_point
                 THEN first(search_layer_single_ignore_ep(elements, e_pt, <<0, e_id>>,
                                                          layers[n]).w)
                 ELSE <<>>
             els == [e \in DOMAIN elements \ {e_id} |-> elements[e]]
             result(r, new_ep) ==
                 [abort |-> r.abort,
                  removed |-> r.removed,
                  ls |-> r.ls,
                  els |-> els,
                  ep |-> IF ~r.abort /\ r.removed /\ <<e_id>> = enter_point
                         THEN (IF new_ep = <<>> THEN <<>> ELSE <<new_ep[1][2]>>)
                         ELSE enter_point,
                  rep |-> r.rep]
         IN result(remove_loop(els, [abort |-> FALSE, ls |-> layers, removed |-> FALSE,
                                     rep |-> {}], e_id, n - 1),
                   new_enter_point)

\* returns [abort, removed, ls, els, ep, rep]
remove(e_id) ==
    IF e_id \notin DOMAIN elements
    THEN [abort |-> FALSE, removed |-> FALSE, ls |-> layers, els |-> elements,
          ep |-> enter_point, rep |-> {}]
    ELSE LET e_pt == elements[e_id]
             n == Len(layers)
             new_enter_point ==
                 IF <<e_id>> = enter_point
                 THEN first(search_layer_single_ignore_ep(elements, e_pt, <<0, e_id>>,
                                                          layers[n]).w)
                 ELSE <<>>
             els == [e \in DOMAIN elements \ {e_id} |-> elements[e]]
             result(r, new_ep) ==
                 [abort |-> r.abort,
                  removed |-> r.removed,
                  ls |-> r.ls,
                  els |-> els,
                  ep |-> IF ~r.abort /\ r.removed /\ <<e_id>> = enter_point
                         THEN (IF new_ep = <<>> THEN <<>> ELSE <<new_ep[1][2]>>)
                         ELSE enter_point,
                  rep |-> r.rep]
         IN result(remove_loop(els, [abort |-> FALSE, ls |-> layers, removed |-> FALSE,
                                     rep |-> {}], e_id, n - 1),
                   new_enter_point)

(***************************************************************************)
(* Hnsw: k-nearest-neighbour search.  Returns [abort, res]; res is the     *)
(* Vec of (e_dist, e_id).                                                  *)
(***************************************************************************)
\* a variant of knn_search that returns the whole of w
knn_search_all(q, k, efs) ==
    IF enter_point = <<>> THEN [abort |-> FALSE, res |-> <<>>]
    ELSE IF enter_point[1] \notin DOMAIN elements THEN [abort |-> TRUE, res |-> <<>>]
    ELSE LET ep == descend(elements, layers, q, get_pn(elements, q, enter_point[1]),
                           Len(layers) - 1, 1)
             w == search_layer_single(elements, q, ep, efs, layers[1]).w
         IN [abort |-> FALSE, res |-> w]

\* a variant of knn_search that takes the k furthest entries of w
knn_search_furthest(q, k, efs) ==
    IF enter_point = <<>> THEN [abort |-> FALSE, res |-> <<>>]
    ELSE IF enter_point[1] \notin DOMAIN elements THEN [abort |-> TRUE, res |-> <<>>]
    ELSE LET ep == descend(elements, layers, q, get_pn(elements, q, enter_point[1]),
                           Len(layers) - 1, 1)
             w == search_layer_single(elements, q, ep, efs, layers[1]).w
         IN [abort |-> FALSE, res |-> SubSeq(w, Len(w) - Min(k, Len(w)) + 1, Len(w))]

\* a variant of knn_search that unwraps the enter point
knn_search_unwrap(q, k, efs) ==
    IF enter_point = <<>> THEN [abort |-> TRUE, res |-> <<>>]
    ELSE IF enter_point[1] \notin DOMAIN elements THEN [abort |-> TRUE, res |-> <<>>]
    ELSE LET ep == descend(elements, layers, q, get_pn(elements, q, enter_point[1]),
                           Len(layers) - 1, 1)
             w == search_layer_single(elements, q, ep, efs, layers[1]).w
         IN [abort |-> FALSE, res |-> take(w, k)]

\* a variant of knn_search that gives its k entries furthest first
knn_search_rev(q, k, efs) ==
    IF enter_point = <<>> THEN [abort |-> FALSE, res |-> <<>>]
    ELSE IF enter_point[1] \notin DOMAIN elements THEN [abort |-> TRUE, res |-> <<>>]
    ELSE LET ep == descend(elements, layers, q, get_pn(elements, q, enter_point[1]),
                           Len(layers) - 1, 1)
             w == take(search_layer_single(elements, q, ep, efs, layers[1]).w, k)
         IN [abort |-> FALSE, res |-> [i \in 1..Len(w) |-> w[Len(w) + 1 - i]]]

knn_search(q, k, efs) ==
    IF enter_point = <<>> THEN [abort |-> FALSE, res |-> <<>>]
    ELSE IF enter_point[1] \notin DOMAIN elements THEN [abort |-> TRUE, res |-> <<>>]
    ELSE LET ep == descend(elements, layers, q, get_pn(elements, q, enter_point[1]),
                           Len(layers) - 1, 1)
             w == search_layer_single(elements, q, ep, efs, layers[1]).w
         IN [abort |-> FALSE, res |-> take(w, k)]

(***************************************************************************)
(* HnswDocs.  A record identifier (Thing) is a string.                     *)
(***************************************************************************)
Rids == {"a", "b", "c"}

\* a variant of next_doc_id that leaves the id it takes in the free set
next_doc_id_kept ==
    IF available # {}
    THEN LET doc_id == CHOOSE d \in available : \A x \in available : d <= x
         IN [doc_id |-> doc_id, available |-> available]
    ELSE [doc_id |-> Len(ids_doc), available |-> available]

\* a variant of next_doc_id that takes the largest free id
next_doc_id_largest ==
    IF available # {}
    THEN LET doc_id == CHOOSE d \in available : \A x \in available : d >= x
         IN [doc_id |-> doc_id, available |-> available \ {doc_id}]
    ELSE [doc_id |-> Len(ids_doc), available |-> available]

\* returns [doc_id, available]
next_doc_id ==
    IF available # {}
    THEN LET doc_id == CHOOSE d \in available : \A x \in available : d <= x
         IN [doc_id |-> doc_id, available |-> available \ {doc_id}]
    ELSE [doc_id |-> Len(ids_doc), available |-> available]

\* returns [doc_id, doc_ids, ids_doc, available]
resolve(rid) ==
    IF rid \in DOMAIN doc_ids
    THEN [doc_id |-> doc_ids[rid], doc_ids |-> doc_ids, ids_doc |-> ids_doc,
          available |-> available]
    ELSE LET nx == next_doc_id
         IN [doc_id |-> nx.doc_id,
             doc_ids |-> [r \in DOMAIN doc_ids \cup {rid} |->
                            IF r = rid THEN nx.doc_id ELSE doc_ids[r]],
             ids_doc |-> Append(ids_doc, <<rid>>),
             available |-> nx.available]

get(slots, doc_id) ==
    IF doc_id < Len(slots) THEN slots[doc_id + 1] ELSE <<>>

\* returns [ret, doc_ids, ids_doc, available]
docs_remove(rid) ==
    IF rid \in DOMAIN doc_ids
    THEN LET doc_id == doc_ids[rid]
         IN [ret |-> <<doc_id>>,
             doc_ids |-> [r \in DOMAIN doc_ids \ {rid} |-> doc_ids[r]],
             ids_doc |-> IF doc_id < Len(ids_doc)
                         THEN [ids_doc EXCEPT ![doc_id + 1] = <<>>]
                         ELSE ids_doc,
             available |-> available \cup {doc_id}]
    ELSE [ret |-> <<>>, doc_ids |-> doc_ids, ids_doc |-> ids_doc,
          available |-> available]

(***************************************************************************)
(* Ids64: the doc-set of a vector, a set of DocIds.                        *)
(***************************************************************************)
\* Ids64::insert: Some(the new set) when d is new to the set, None otherwise
ids_insert(docs, d) == IF d \in docs THEN <<>> ELSE <<docs \cup {d}>>

\* Ids64::remove: Some(the new set) when d was in the set, None otherwise
ids_remove(docs, d) == IF d \in docs THEN <<docs \ {d}>> ELSE <<>>

(***************************************************************************)
(* HnswIndex.  vec_docs is a function vector -> [docs, e_id].  The         *)
(* operators return [abort, vd, ls, els, ep, rep, nid].                    *)
(***************************************************************************)
index_unchanged(vd) ==
    [abort |-> FALSE, vd |-> vd, ls |-> layers, els |-> elements, ep |-> enter_point,
     rep |-> {}, nid |-> next_element_id]

\* HnswIndex::insert; q_level is the level Hnsw::insert draws
index_insert(vd, o, d, q_level) ==
    IF o \in DOMAIN vd
    THEN LET new_docs == ids_insert(vd[o].docs, d)
         IN IF new_docs = <<>> THEN index_unchanged(vd)
            ELSE index_unchanged([vd EXCEPT ![o].docs = new_docs[1]])
    ELSE LET write(r) ==
                 [abort |-> r.abort,
                  vd |-> IF r.abort THEN vd
                         ELSE [v \in DOMAIN vd \cup {o} |->
                                 IF v = o THEN [docs |-> {d}, e_id |-> next_element_id]
                                 ELSE vd[v]],
                  ls |-> r.ls, els |-> r.els, ep |-> r.ep, rep |-> r.rep,
                  nid |-> IF r.abort THEN next_element_id ELSE next_element_id + 1]
         IN write(insert_level(o, q_level))

\* HnswIndex::remove
index_remove(vd, o, d) ==
    IF o \notin DOMAIN vd THEN index_unchanged(vd)
    ELSE LET new_docs == ids_remove(vd[o].docs, d)
             write(r) ==
                 [abort |-> r.abort,
                  vd |-> [v \in DOMAIN vd \ {o} |-> vd[v]],
                  ls |-> r.ls, els |-> r.els, ep |-> r.ep, rep |-> r.rep,
                  nid |-> next_element_id]
         IN IF new_docs = <<>> THEN index_unchanged(vd)
            ELSE IF new_docs[1] = {} THEN write(remove(vd[o].e_id))
            ELSE index_unchanged([vd EXCEPT ![o].docs = new_docs[1]])

(***************************************************************************)
(* KnnResultBuilder: a sequence of <<dist, doc_id>> pairs in ascending     *)
(* order, entries of equal distance ordered by doc_id, at most n of them.  *)
(***************************************************************************)
check_add(b, n, dist) == b = <<>> \/ Len(b) < n \/ dist <= b[Len(b)][1]

add(b, n, dist, docs) ==
    take(push_all(b, [i \in 1..Cardinality(docs) |-> <<dist, iter(docs)[i]>>]), n)

\* KnnResult.docs: the (doc_id, dist) pairs
build(b, n) == [i \in 1..Min(n, Len(b)) |-> <<b[i][2], b[i][1]>>]

\* the loop of HnswIndex::search over the neighbours Hnsw::knn_search gave
RECURSIVE search_loop_docs(_, _, _, _)
search_loop_docs(b, n, res, vd) ==
    IF res = <<>> THEN b
    ELSE LET e_dist == res[1][1]
             v == elements[res[1][2]]
         IN search_loop_docs(IF check_add(b, n, e_dist) /\ v \in DOMAIN vd
                             THEN add(b, n, e_dist, vd[v].docs)
                             ELSE b,
                             n, Tail(res), vd)

\* HnswIndex::search; returns [abort, neighbors, docs]
search(o, n, ef) ==
    LET fold(r) ==
            [abort |-> r.abort,
             neighbors |-> r.res,
             docs |-> IF r.abort THEN <<>>
                      ELSE build(search_loop_docs(<<>>, n, r.res, vec_docs), n)]
    IN fold(knn_search(o, n, ef))

\* HnswIndex::result: the records of the doc ids HnswDocs still knows
RECURSIVE result(_)
result(docs) ==
    IF docs = <<>> THEN <<>>
    ELSE LET t == get(ids_doc, docs[1][1])
         IN (IF t = <<>> THEN <<>> ELSE <<<<t[1], docs[1][2]>>>>) \o result(Tail(docs))

(***************************************************************************)
(* The index under construction parameters, and its operations.            *)
(***************************************************************************)
Policies == {<<FALSE, FALSE, FALSE>>, <<TRUE, FALSE, FALSE>>, <<TRUE, TRUE, FALSE>>,
             <<TRUE, FALSE, TRUE>>, <<TRUE, TRUE, TRUE>>}

\* <<m, m0, ef_construction>>
Configs == {<<1, 1, 2>>, <<1, 2, 1>>, <<1, 2, 2>>, <<1, 0, 2>>}

KnnConfigs == {<<1, 1, 2>>, <<1, 2, 1>>}

\* Hnsw::new and HnswIndex::new
New(p_m, p_m0, p_efc, policy) ==
    /\ m = p_m
    /\ m0 = p_m0
    /\ efc = p_efc
    /\ neighbors = SelectNeighborsFrom(policy[1], policy[2], policy[3])
    /\ layers = <<>>
    /\ enter_point = <<>>
    /\ elements = [e \in {} |-> <<>>]
    /\ next_element_id = 0
    /\ doc_ids = [r \in {} |-> 0]
    /\ ids_doc = <<>>
    /\ available = {}
    /\ vec_docs = [v \in {} |-> <<>>]
    /\ replaced = {}
    /\ aborted = FALSE
    /\ last = [op |-> "new", args |-> <<>>, ret |-> <<>>]

Init ==
    \E c \in Configs, policy \in Policies : New(c[1], c[2], c[3], policy)

InitKnn ==
    \E c \in KnnConfigs, policy \in Policies : New(c[1], c[2], c[3], policy)

\* a variant of Insert that leaves next_element_id as it is
InsertSameId(q_pt, q_level) ==
    /\ ~aborted
    /\ LET write(r) ==
               /\ layers' = r.ls
               /\ elements' = r.els
               /\ enter_point' = r.ep
               /\ replaced' = replaced \cup r.rep
               /\ aborted' = r.abort
               /\ next_element_id' = next_element_id
               /\ last' = [op |-> "insert", args |-> <<q_pt, q_level>>,
                           ret |-> IF r.abort THEN <<>> ELSE <<next_element_id>>]
       IN write(insert_level(q_pt, q_level))
    /\ UNCHANGED <<m, m0, efc, neighbors, doc_ids, ids_doc, available, vec_docs>>

\* Hnsw::insert: the level is the one get_random_level draws
Insert(q_pt, q_level) ==
    /\ ~aborted
    /\ LET write(r) ==
               /\ layers' = r.ls
               /\ elements' = r.els
               /\ enter_point' = r.ep
               /\ replaced' = replaced \cup r.rep
               /\ aborted' = r.abort
               /\ next_element_id' = IF r.abort THEN next_element_id
                                     ELSE next_element_id + 1
               /\ last' = [op |-> "insert", args |-> <<q_pt, q_level>>,
                           ret |-> IF r.abort THEN <<>> ELSE <<next_element_id>>]
       IN write(insert_level(q_pt, q_level))
    /\ UNCHANGED <<m, m0, efc, neighbors, doc_ids, ids_doc, available, vec_docs>>

HnswInsert(q_pt, q_level) ==
    /\ next_element_id < MaxElements
    /\ Insert(q_pt, q_level)

\* Hnsw::remove; last.args keeps the enter point of the call
HnswRemove(e_id) ==
    /\ ~aborted
    /\ LET write(r) ==
               /\ layers' = r.ls
               /\ elements' = r.els
               /\ enter_point' = r.ep
               /\ replaced' = replaced \cup r.rep
               /\ aborted' = r.abort
               /\ last' = [op |-> "remove", args |-> <<e_id, enter_point>>,
                           ret |-> IF r.abort THEN <<>> ELSE <<r.removed>>]
       IN write(remove(e_id))
    /\ UNCHANGED <<m, m0, efc, neighbors, next_element_id, doc_ids, ids_doc, available,
                   vec_docs>>

\* Hnsw::knn_search
HnswKnnSearch(q, k, efs) ==
    /\ ~aborted
    /\ LET write(r) ==
               /\ aborted' = r.abort
               /\ last' = [op |-> "knn_search", args |-> <<q, k, efs>>, ret |-> r.res]
       IN write(knn_search(q, k, efs))
    /\ UNCHANGED <<hnsw_vars, doc_ids, ids_doc, available, vec_docs>>

Next ==
    \/ \E q_pt \in Points, q_level \in Levels : HnswInsert(q_pt, q_level)
    \/ \E e_id \in 0..(MaxElements - 1) : HnswRemove(e_id)

Spec == Init /\ [][Next]_vars

\* the index is built by inserts and removes and then searched: a search
\* takes &self and leaves the index as it is, so it ends the behaviour
NextKnn ==
    \/ /\ last.op # "knn_search"
       /\ \E q_pt \in Queries, q_level \in Levels : HnswInsert(q_pt, q_level)
    \/ /\ last.op # "knn_search"
       /\ \E e_id \in 0..(MaxElements - 1) : HnswRemove(e_id)
    \/ /\ last.op # "knn_search"
       /\ \E q \in Queries, k \in Ks, efs \in Efs : HnswKnnSearch(q, k, efs)

SpecKnn == InitKnn /\ [][NextKnn]_vars

InitDocs == New(1, 2, 2, <<FALSE, FALSE, FALSE>>)

\* HnswDocs::resolve
DocsResolve(rid) ==
    /\ Len(ids_doc) < MaxSlots
    /\ LET r == resolve(rid)
       IN /\ doc_ids' = r.doc_ids
          /\ ids_doc' = r.ids_doc
          /\ available' = r.available
          /\ last' = [op |-> "resolve", args |-> <<rid>>, ret |-> <<r.doc_id>>]
    /\ UNCHANGED <<hnsw_vars, vec_docs, aborted>>

\* HnswDocs::remove
DocsRemove(rid) ==
    /\ LET r == docs_remove(rid)
       IN /\ doc_ids' = r.doc_ids
          /\ ids_doc' = r.ids_doc
          /\ available' = r.available
          /\ last' = [op |-> "docs_remove", args |-> <<rid>>, ret |-> r.ret]
    /\ UNCHANGED <<hnsw_vars, vec_docs, aborted>>

NextDocs ==
    \/ \E rid \in Rids : DocsResolve(rid)
    \/ \E rid \in Rids : DocsRemove(rid)

SpecDocs == InitDocs /\ [][NextDocs]_vars

(***************************************************************************)
(* test_building: the index of the test and its script of insert_level     *)
(* calls; insert number i takes the vector (i, i).                         *)
(***************************************************************************)
BuildLevels == <<0, 0, 0, 1, 2, 2, 1, 0, 0, 0, 1>>

BuildKs == {1, 10}

BuildEfs == {1, 501}

InitBuild == New(2, 4, 500, <<TRUE, TRUE, TRUE>>)

BuildInsert ==
    /\ next_element_id < Len(BuildLevels)
    /\ Insert(<<next_element_id + 1, next_element_id + 1>>, BuildLevels[next_element_id + 1])

NextBuild ==
    \/ last.op # "knn_search" /\ BuildInsert
    \/ last.op # "knn_search" /\ \E i \in 1..Len(BuildLevels), k \in BuildKs, efs \in BuildEfs :
                                    HnswKnnSearch(<<i, i>>, k, efs)

SpecBuild == InitBuild /\ [][NextBuild]_vars

(***************************************************************************)
(* The index is built by inserts alone.                                    *)
(***************************************************************************)
NextShrink ==
    \E q_pt \in Points, q_level \in Levels :
        /\ next_element_id < MaxInserts
        /\ Insert(q_pt, q_level)

SpecShrink == Init /\ [][NextShrink]_vars

(***************************************************************************)
(* The index is built by inserts, and then the selector of the index is    *)
(* called on a queue of nodes of one of its layers, with the m_max of the  *)
(* layer; a selection leaves the index as it is and ends the behaviour.    *)
(***************************************************************************)
SelectConfigs == {<<1, 2, 2>>, <<1, 0, 2>>}

InitSelect ==
    \E c \in SelectConfigs, policy \in Policies : New(c[1], c[2], c[3], policy)

\* SelectNeighbors::select for a new element at q_pt, on the nodes S of
\* layer i - 1
HnswSelect(i, q_pt, S) ==
    /\ ~aborted
    /\ LET c == queue_of(q_pt, iter(S))
           write(r) ==
               /\ aborted' = r.abort
               /\ last' = [op |-> "select", args |-> <<i - 1, q_pt, c, m_max_of(i - 1)>>,
                           ret |-> r.r]
       IN write(select(neighbors, elements, layers[i], next_element_id, q_pt, c,
                       m_max_of(i - 1)))
    /\ UNCHANGED <<hnsw_vars, doc_ids, ids_doc, available, vec_docs>>

NextSelect ==
    \/ /\ last.op # "select"
       /\ next_element_id < MaxCandidates
       /\ \E q_pt \in Queries, q_level \in Levels : Insert(q_pt, q_level)
    \/ /\ last.op # "select"
       /\ \E i \in 1..Len(layers), q_pt \in Queries :
              \E S \in SUBSET (DOMAIN layers[i] \cap DOMAIN elements) :
                  HnswSelect(i, q_pt, S)

SpecSelect == InitSelect /\ [][NextSelect]_vars

(***************************************************************************)
(* HnswIndex: documents are indexed, removed and searched for.  A value of  *)
(* the content of a document is a tuple of items; an item is a number or   *)
(* NotANumber.  A content holds at most one value that makes a vector of   *)
(* the dimension of the index, alone, followed by a value of another       *)
(* dimension, or preceded by a value that is no array of numbers.          *)
(***************************************************************************)
\* HnswIndex.dim
dim == 1

\* an item of a value that is not a number
NotANumber == -1

\* Vector::try_from_value: Err when an item cannot be coerced
try_from_value(value) ==
    IF \E i \in 1..Len(value) : value[i] = NotANumber THEN <<"VectorTypeError">> ELSE <<>>

\* Vector::check_dimension
check_dimension(vector) == IF Len(vector) # dim THEN <<"DimensionError">> ELSE <<>>

\* the error the two `?` of the loop body raise on a value, if any
value_error(value) ==
    IF try_from_value(value) # <<>> THEN try_from_value(value) ELSE check_dimension(value)

\* a variant of accepted that skips a value in error and goes on
RECURSIVE accepted_skip(_)
accepted_skip(content) ==
    IF content = <<>> THEN <<>>
    ELSE IF value_error(content[1]) # <<>> THEN accepted_skip(Tail(content))
    ELSE <<content[1]>> \o accepted_skip(Tail(content))

\* the values the loop over content reaches insert or remove with
RECURSIVE accepted(_)
accepted(content) ==
    IF content = <<>> \/ value_error(content[1]) # <<>> THEN <<>>
    ELSE <<content[1]>> \o accepted(Tail(content))

\* the Err the loop over content returns with, <<>> for Ok(())
RECURSIVE content_error(_)
content_error(content) ==
    IF content = <<>> THEN <<>>
    ELSE IF value_error(content[1]) # <<>> THEN value_error(content[1])
    ELSE content_error(Tail(content))

\* the vectors of the documents
IndexVectors == {<<0>>, <<2>>}

Contents ==
    {<<>>} \cup {<<o>> : o \in IndexVectors}
           \cup {<<o, <<0, 0>>>> : o \in IndexVectors}
           \cup {<<<<NotANumber>>, o>> : o \in IndexVectors}

\* the records indexed
IndexRids == {"a", "b"}

InitIndex == New(1, 2, 2, <<TRUE, TRUE, TRUE>>)

\* HnswIndex::index_document
IndexDocument(rid, content, q_level) ==
    /\ ~aborted
    /\ IF rid \in DOMAIN doc_ids THEN TRUE ELSE Len(ids_doc) < MaxDocs
    /\ IF accepted(content) = <<>> THEN TRUE
       ELSE IF accepted(content)[1] \in DOMAIN vec_docs THEN TRUE
       ELSE next_element_id < MaxElements
    /\ LET docs(rs) ==
               /\ doc_ids' = rs.doc_ids
               /\ ids_doc' = rs.ids_doc
               /\ available' = rs.available
           write(r) ==
               /\ vec_docs' = r.vd
               /\ layers' = r.ls
               /\ elements' = r.els
               /\ enter_point' = r.ep
               /\ replaced' = replaced \cup r.rep
               /\ next_element_id' = r.nid
               /\ aborted' = r.abort
       IN /\ docs(resolve(rid))
          /\ write(IF accepted(content) = <<>> THEN index_unchanged(vec_docs)
                   ELSE index_insert(vec_docs, accepted(content)[1], resolve(rid).doc_id,
                                     q_level))
    /\ last' = [op |-> "index_document", args |-> <<rid, content>>,
                ret |-> content_error(content)]
    /\ UNCHANGED <<m, m0, efc, neighbors>>

\* a variant of RemoveDocument that reads the values before it looks the record up
RemoveDocumentValuesFirst(rid, content) ==
    /\ ~aborted
    /\ LET docs(rs) ==
               /\ doc_ids' = rs.doc_ids
               /\ ids_doc' = rs.ids_doc
               /\ available' = rs.available
               /\ last' = [op |-> "remove_document", args |-> <<rid, content>>,
                           ret |-> content_error(content)]
           write(r) ==
               /\ vec_docs' = r.vd
               /\ layers' = r.ls
               /\ elements' = r.els
               /\ enter_point' = r.ep
               /\ replaced' = replaced \cup r.rep
               /\ aborted' = r.abort
       IN /\ docs(docs_remove(rid))
          /\ write(IF accepted(content) = <<>> \/ rid \notin DOMAIN doc_ids
                   THEN index_unchanged(vec_docs)
                   ELSE index_remove(vec_docs, accepted(content)[1], doc_ids[rid]))
    /\ UNCHANGED <<m, m0, efc, neighbors, next_element_id>>

\* HnswIndex::remove_document
RemoveDocument(rid, content) ==
    /\ ~aborted
    /\ LET docs(rs) ==
               /\ doc_ids' = rs.doc_ids
               /\ ids_doc' = rs.ids_doc
               /\ available' = rs.available
               /\ last' = [op |-> "remove_document", args |-> <<rid, content>>,
                           ret |-> IF rs.ret = <<>> THEN <<>> ELSE content_error(content)]
           write(r) ==
               /\ vec_docs' = r.vd
               /\ layers' = r.ls
               /\ elements' = r.els
               /\ enter_point' = r.ep
               /\ replaced' = replaced \cup r.rep
               /\ aborted' = r.abort
       IN /\ docs(docs_remove(rid))
          /\ write(IF accepted(content) = <<>> \/ rid \notin DOMAIN doc_ids
                   THEN index_unchanged(vec_docs)
                   ELSE index_remove(vec_docs, accepted(content)[1], doc_ids[rid]))
    /\ UNCHANGED <<m, m0, efc, neighbors, next_element_id>>

\* HnswIndex::knn_search
IndexKnnSearch(o, n, ef) ==
    /\ ~aborted
    /\ LET write(r) ==
               /\ aborted' = r.abort
               /\ last' = [op |-> "index_knn_search", args |-> <<o, n, ef>>,
                           ret |-> [neighbors |-> r.neighbors, docs |-> r.docs,
                                    res |-> result(r.docs)]]
       IN write(search(o, n, ef))
    /\ UNCHANGED <<hnsw_vars, doc_ids, ids_doc, available, vec_docs>>

\* a search takes &self and leaves the index as it is, so it ends the behaviour
NextIndex ==
    \/ /\ last.op # "index_knn_search"
       /\ \E rid \in IndexRids, content \in Contents, q_level \in Levels :
              IndexDocument(rid, content, q_level)
    \/ /\ last.op # "index_knn_search"
       /\ \E rid \in IndexRids, content \in Contents : RemoveDocument(rid, content)
    \/ /\ last.op # "index_knn_search"
       /\ \E o \in Queries, n \in Ks, ef \in Efs : IndexKnnSearch(o, n, ef)

SpecIndex == InitIndex /\ [][NextIndex]_vars

(***************************************************************************)
(* Properties.  Layer lc of the code is layers[lc + 1]; the ids a0 .. f5   *)
(* of test_building are the element ids 0 .. 5.                            *)
(***************************************************************************)
live == DOMAIN elements

\* the index holds what its inserts gave it: no element has been removed
InsertOnly == live = 0..(next_element_id - 1)

Distinct == \A a, b \in live : a # b => elements[a] # elements[b]

\* the live elements a layer search reaches from the set S over the edges of l
RECURSIVE reach(_, _, _)
reach(els, l, S) ==
    LET T == S \cup {b \in DOMAIN els : \E a \in S : a \in DOMAIN l /\ b \in l[a]}
    IN IF T = S THEN S ELSE reach(els, l, T)

\* the element at which the descent of knn_search through layers l-1 .. 1 ends
descent_end(q) ==
    descend(elements, layers, q, get_pn(elements, q, enter_point[1]), Len(layers) - 1, 1)[2]

\* the live elements the layer 0 search of knn_search(q, ..) can reach
Reached(q) ==
    IF enter_point = <<>> \/ enter_point[1] \notin live THEN {}
    ELSE reach(elements, layers[1], {descent_end(q)})

Searched == last.op = "knn_search" /\ ~aborted

\* C1: after any sequence of inserts and removes, every node of every layer
\* has at most m_max(l) edges, m_max(0) = m0 and m_max(l) = m above layer 0.
DegreeCap ==
    \A i \in 1..Len(layers) : \A e \in DOMAIN layers[i] :
        Cardinality(layers[i][e]) <= m_max_of(i - 1)

\* an insert has shrunk a neighbour, and a node holds as many edges as allowed
DegreeCapWitness ==
    /\ ~aborted
    /\ replaced # {}
    /\ \E i \in 1..Len(layers) : \E e \in DOMAIN layers[i] :
           Cardinality(layers[i][e]) = m_max_of(i - 1)

\* C2: no sequence of insert, remove and knn_search calls reaches an abort
\* (unreachable!, a failed assertion, a lookup of a missing element id).
NoAbort == ~aborted

\* C3: after a remove of the element that is the enter point, the enter
\* point is None or a live element other than the removed one.
EnterPointReplaced ==
    (/\ last.op = "remove"
     /\ ~aborted
     /\ last.ret = <<TRUE>>
     /\ last.args[2] = <<last.args[1]>>)
    => \/ enter_point = <<>>
       \/ enter_point[1] \in live /\ enter_point[1] # last.args[1]

\* C4: DocId round trip: get(resolve(r)) is r, after any resolves and removes.
DocIdRoundTrip ==
    last.op = "resolve" => get(ids_doc, last.ret[1]) = <<last.args[1]>>

\* C5: a slot of ids_doc is None if and only if its DocId is in the free set.
SlotNoneIffFree ==
    \A d \in 0..(Len(ids_doc) - 1) : ids_doc[d + 1] = <<>> <=> d \in available

BuildSixthInsert ==
    next_element_id = 6 =>
        /\ ~aborted
        /\ enter_point = <<4>>
        /\ Len(layers) = 3
        /\ layers[3] = (4 :> {5} @@ 5 :> {4})
        /\ layers[2] = (3 :> {4, 5} @@ 4 :> {3, 5} @@ 5 :> {4, 3})
        /\ layers[1] = (0 :> {1, 2, 3, 4} @@ 1 :> {0, 2, 3, 4} @@ 2 :> {1, 3, 0, 4}
                        @@ 3 :> {2, 4, 1, 5} @@ 4 :> {3, 5, 2, 1} @@ 5 :> {4, 3, 2, 1})

BuildSixthInsertWitness ==
    next_element_id = 6 /\ last.op = "insert" /\ last.ret = <<5>>

SearchedInserted ==
    /\ Searched
    /\ InsertOnly
    /\ \E e \in live : elements[e] = last.args[1]
    /\ last.args[2] >= 1
    /\ last.args[3] >= last.args[2]

\* C9 as stated: in an index built by inserts only, knn_search(v, k, efs) of
\* an inserted v with efs >= k >= 1 returns min(N, k) entries.
InsertedSizeLaw ==
    SearchedInserted => Len(last.ret) = Min(Cardinality(live), last.args[2])

\* C9: it returns min(R, k) entries, R the number of elements its layer 0
\* search can reach from the element the descent ends at.
InsertedSizeReached ==
    SearchedInserted =>
        Len(last.ret) = Min(Cardinality(Reached(last.args[1])), last.args[2])

\* the search reaches fewer than k of the N >= k elements
InsertedSizeWitness ==
    /\ SearchedInserted
    /\ Cardinality(Reached(last.args[1])) < last.args[2]
    /\ last.args[2] <= Cardinality(live)
    /\ Len(last.ret) = Cardinality(Reached(last.args[1]))

\* C10 as stated: with pairwise distinct vectors the result of
\* knn_search(v, k, efs) holds the element whose vector is v, at distance 0.
SelfQuery ==
    (SearchedInserted /\ Distinct) =>
        \E i \in 1..Len(last.ret) :
            /\ last.ret[i][1] = 0
            /\ elements[last.ret[i][2]] = last.args[1]

\* C10: the element x whose vector is v is the first entry, at distance 0,
\* when the descent ends at x, or when the layer 0 search can reach x from
\* the element the descent ends at and efs is at least the number of
\* elements it can reach.
SelfQueryReached ==
    (SearchedInserted /\ Distinct) =>
        \A x \in live :
            (/\ elements[x] = last.args[1]
             /\ \/ descent_end(last.args[1]) = x
                \/ /\ x \in Reached(last.args[1])
                   /\ last.args[3] >= Cardinality(Reached(last.args[1])))
            => /\ last.ret # <<>>
               /\ last.ret[1] = <<0, x>>

\* the descent leaves the enter point and ends at the element searched for
SelfQueryWitness ==
    /\ SearchedInserted
    /\ Distinct
    /\ Cardinality(live) >= 3
    /\ elements[descent_end(last.args[1])] = last.args[1]
    /\ descent_end(last.args[1]) # enter_point[1]
    /\ last.ret[1] = <<0, descent_end(last.args[1])>>

\* the ids a layer graph holds: its nodes and the members of its edge sets
graph_ids(l) == DOMAIN l \cup UNION {l[e] : e \in DOMAIN l}

\* C11: every ElementId that appears in a layer graph, as a node or as a
\* member of an edge set, is a key of the element table; after remove(e_id)
\* the id e_id appears in no layer graph.
GraphIdsLive ==
    \A i \in 1..Len(layers) : graph_ids(layers[i]) \subseteq live

\* C14: the enter point, if set, is a node of the topmost layer that has a node.
EnterPointOnTop ==
    enter_point # <<>> =>
        \E i \in 1..Len(layers) :
            /\ enter_point[1] \in DOMAIN layers[i]
            /\ \A j \in (i + 1)..Len(layers) : DOMAIN layers[j] = {}

\* C15: a node of layer k is a node of every layer below it, and every live
\* element is a node of layer 0.
PopulationMonotone ==
    /\ \A i \in 2..Len(layers) : DOMAIN layers[i] \subseteq DOMAIN layers[i - 1]
    /\ live # {} => Len(layers) >= 1 /\ live \subseteq DOMAIN layers[1]

\* C16: no node of a layer is a member of its own edge set.
NoSelfLoop ==
    \A i \in 1..Len(layers) : \A e \in DOMAIN layers[i] : e \notin layers[i][e]

\* an extending selector has rewritten the edge set of a node whose
\* neighbours point back at it
NoSelfLoopWitness ==
    /\ ~aborted
    /\ neighbors \in {"HeuristicExt", "HeuristicExtKeep"}
    /\ \E i \in 1..Len(layers) : \E e \in DOMAIN layers[i] :
           /\ <<i - 1, e>> \in replaced
           /\ layers[i][e] # {}
           /\ \E b \in layers[i][e] : b \in DOMAIN layers[i] /\ e \in layers[i][b]

\* C17: ElementIds are never reused: an insert that returns gives the value
\* of next_element_id and advances it by one, and no step lowers
\* next_element_id, so every returned id is greater than every id returned
\* before it, the ids of removed elements included.
IdsNeverReused ==
    [][/\ next_element_id' >= next_element_id
       /\ (last'.op = "insert" /\ ~aborted')
              => /\ last'.ret = <<next_element_id>>
                 /\ next_element_id' = next_element_id + 1
                 /\ \A e \in live : e < last'.ret[1]]_vars

\* an insert has returned an id after a remove and after two other inserts
IdsNeverReusedWitness ==
    /\ last.op = "insert"
    /\ ~aborted
    /\ last.ret = <<2>>
    /\ next_element_id = 3

\* C19: a knn_search on an index whose enter point is unset returns the
\* empty result and does not abort, whatever q, k and efs are.
UnsetEnterPointEmpty ==
    (last.op = "knn_search" /\ enter_point = <<>>) => ~aborted /\ last.ret = <<>>

\* a search has run on the index without an enter point, with k and efs at
\* their largest
UnsetEnterPointWitness ==
    /\ last.op = "knn_search"
    /\ enter_point = <<>>
    /\ last.args[2] = 3
    /\ last.args[3] = 3

\* C20: a remove of an id that is not a key of the element table returns
\* false and leaves the element table, every layer, the enter point and
\* next_element_id as they are.
RemoveUnknownFrame ==
    [][(last'.op = "remove" /\ last'.args[1] \notin live)
           => /\ ~aborted'
              /\ last'.ret = <<FALSE>>
              /\ UNCHANGED <<elements, layers, enter_point, next_element_id>>]_vars

\* a remove of an unknown id has returned false on an index that holds elements
RemoveUnknownWitness ==
    /\ last.op = "remove"
    /\ last.ret = <<FALSE>>
    /\ last.args[1] \notin live
    /\ Cardinality(live) >= 2
    /\ enter_point # <<>>

\* C12: a vector has an entry of vec_docs iff the ElementId stored with it
\* is a key of the element table of the graph, where it names that vector,
\* and every key of the element table is the ElementId of exactly one
\* entry; no entry has an empty doc-set.
VecDocsMatchElements ==
    /\ \A v \in DOMAIN vec_docs :
           /\ vec_docs[v].e_id \in live
           /\ elements[vec_docs[v].e_id] = v
           /\ vec_docs[v].docs # {}
    /\ \A e \in live :
           Cardinality({v \in DOMAIN vec_docs : vec_docs[v].e_id = e}) = 1

\* the step indexes a vector that has an entry of vec_docs already
IndexesKnownVector ==
    /\ last'.op = "index_document"
    /\ last'.args[2] # <<>>
    /\ last'.args[2][1] \in DOMAIN vec_docs

\* the step removes the document d of rid from the doc-set of its vector
RemovesDocOf(rid, d) ==
    /\ last'.op = "remove_document"
    /\ last'.args[1] = rid
    /\ last'.args[2] # <<>>
    /\ last'.args[2][1] \in DOMAIN vec_docs
    /\ d \in vec_docs[last'.args[2][1]].docs

\* indexing a vector that has an entry makes no call to the graph: the
\* element table, the layers and next_element_id are unchanged
DedupInsert ==
    IndexesKnownVector
        => /\ ~aborted'
           /\ UNCHANGED <<elements, layers, enter_point, next_element_id>>
           /\ DOMAIN vec_docs' = DOMAIN vec_docs

\* removing one of several documents of a vector keeps the element and the entry
DedupRemoveOne ==
    \A rid \in DOMAIN doc_ids :
        (/\ RemovesDocOf(rid, doc_ids[rid])
         /\ vec_docs[last'.args[2][1]].docs # {doc_ids[rid]})
        => /\ ~aborted'
           /\ UNCHANGED <<elements, layers, enter_point, next_element_id>>
           /\ DOMAIN vec_docs' = DOMAIN vec_docs
           /\ vec_docs'[last'.args[2][1]].e_id = vec_docs[last'.args[2][1]].e_id
           /\ vec_docs'[last'.args[2][1]].docs
                  = vec_docs[last'.args[2][1]].docs \ {doc_ids[rid]}

\* removing the last document of a vector removes the entry and the element
\* from the element table and from the layers, and the call returns
DedupRemoveLast ==
    \A rid \in DOMAIN doc_ids :
        (/\ RemovesDocOf(rid, doc_ids[rid])
         /\ vec_docs[last'.args[2][1]].docs = {doc_ids[rid]})
        => /\ ~aborted'
           /\ last'.args[2][1] \notin DOMAIN vec_docs'
           /\ vec_docs[last'.args[2][1]].e_id \notin DOMAIN elements'
           /\ \A i \in 1..Len(layers') :
                  vec_docs[last'.args[2][1]].e_id \notin graph_ids(layers'[i])

\* C13: deduplication: indexing the same vector under two records creates
\* one element (the second insert makes no call to the graph); removing one
\* of the records keeps the element and the entry of vec_docs; removing
\* both removes the element and the entry.
Deduplication == [][DedupInsert /\ DedupRemoveOne /\ DedupRemoveLast]_vars

\* the queue the layer 0 search of knn_search(q, k, efs) gives
layer0_queue(q, efs) ==
    search_layer_single(elements, q,
                        descend(elements, layers, q, get_pn(elements, q, enter_point[1]),
                                Len(layers) - 1, 1),
                        efs, layers[1]).w

\* the entries of s are in non-decreasing order of their component c
Ascending(s, c) == \A i, j \in 1..Len(s) : i < j => s[i][c] <= s[j][c]

IndexSearched == last.op = "index_knn_search" /\ ~aborted

\* C18: a search returns at most k entries in non-decreasing order of
\* distance: the result of Hnsw::knn_search is the k smallest entries of the
\* layer 0 queue, and the result of HnswIndex::search and of
\* HnswIndex::knn_search is in ascending order of distance.
KnnOrdered ==
    IndexSearched =>
        /\ Len(last.ret.neighbors) <= last.args[2]
        /\ Ascending(last.ret.neighbors, 1)
        /\ enter_point # <<>> =>
               LET w == layer0_queue(last.args[1], last.args[3])
                   ws == {w[i] : i \in 1..Len(w)}
                   rs == {last.ret.neighbors[i] : i \in 1..Len(last.ret.neighbors)}
               IN /\ rs \subseteq ws
                  /\ Len(last.ret.neighbors) = Min(last.args[2], Len(w))
                  /\ \A x \in ws \ rs : \A y \in rs : y[1] <= x[1]
        /\ Len(last.ret.docs) <= last.args[2]
        /\ Ascending(last.ret.docs, 2)
        /\ Len(last.ret.res) <= last.args[2]
        /\ Ascending(last.ret.res, 2)

\* a search has cut the four (distance, document) pairs of two elements down
\* to three records at two distances
KnnOrderedWitness ==
    /\ IndexSearched
    /\ Len(last.ret.neighbors) = 2
    /\ \A v \in DOMAIN vec_docs : Cardinality(vec_docs[v].docs) = 2
    /\ Len(last.ret.docs) = 3
    /\ Len(last.ret.res) = 3
    /\ last.ret.res[1][2] < last.ret.res[3][2]

\* C21: remove_document for a record that has no DocId returns Ok and leaves
\* the document map, the free set, vec_docs and the graph unchanged,
\* whatever values are passed with it.
RemoveUnknownRecordFrame ==
    [][(last'.op = "remove_document" /\ last'.args[1] \notin DOMAIN doc_ids)
           => /\ ~aborted'
              /\ last'.ret = <<>>
              /\ UNCHANGED <<doc_ids, ids_doc, available, vec_docs, elements, layers,
                             enter_point, next_element_id>>]_vars

\* remove_document has returned Ok for an unknown record and a content that
\* holds a value of another dimension, on an index that holds documents
RemoveUnknownRecordWitness ==
    /\ last.op = "remove_document"
    /\ last.args[1] \notin DOMAIN doc_ids
    /\ content_error(last.args[2]) = <<"DimensionError">>
    /\ last.ret = <<>>
    /\ doc_ids # <<>>
    /\ DOMAIN vec_docs # {}

\* the value has another length than the index dimension, or an item of it
\* is no number
BadValue(value) == Len(value) # dim \/ \E i \in 1..Len(value) : value[i] = NotANumber

\* the positions of content from its first bad value on
FromFirstBad(content) ==
    {i \in 1..Len(content) : \E k \in 1..i : BadValue(content[k])}

\* C22: index_document returns an error as soon as it meets a value whose
\* length differs from the dimension or that cannot be coerced; the vector
\* of that value and of every later value of the call is not inserted into
\* vec_docs or into the graph.
IndexDocumentStopsAtError ==
    [][(last'.op = "index_document" /\ FromFirstBad(last'.args[2]) # {})
           => /\ last'.ret \in {<<"DimensionError">>, <<"VectorTypeError">>}
              /\ \A i \in FromFirstBad(last'.args[2]) :
                     /\ last'.args[2][i] \in DOMAIN vec_docs'
                            => /\ last'.args[2][i] \in DOMAIN vec_docs
                               /\ vec_docs'[last'.args[2][i]] = vec_docs[last'.args[2][i]]
                     /\ \A e \in DOMAIN elements' \ DOMAIN elements :
                            elements'[e] # last'.args[2][i]]_vars

\* index_document has returned an error at the first value of a content
\* whose second value is a vector the index does not hold, for a record
\* that was indexed before
IndexDocumentErrorWitness ==
    /\ last.op = "index_document"
    /\ ~aborted
    /\ Len(last.args[2]) = 2
    /\ BadValue(last.args[2][1])
    /\ last.args[2][2] \notin DOMAIN vec_docs
    /\ last.ret = <<"VectorTypeError">>
    /\ DOMAIN vec_docs # {}

\* the layers (as indexes of the sequence) that hold the node e
layers_of(ls, e) == {i \in 1..Len(ls) : e \in DOMAIN ls[i]}

\* a step of insert_level(q, q_level) has given the new id q_id to an index
\* whose top layer was layer top: the effect the claim C23 describes
InsertedAbove(q_id, q_level, top) ==
    /\ layers_of(layers', q_id) = 1..(q_level + 1)
    /\ Len(layers') = Max(top, q_level) + 1
    /\ \A i \in (top + 2)..(q_level + 1) :
           /\ DOMAIN layers'[i] = {q_id}
           /\ layers'[i][q_id] = {}
    /\ enter_point' = IF q_level > top THEN <<q_id>> ELSE enter_point

\* C23: insert_level(q, q_level) on an index that has an enter point, with
\* top = layers.len() - 1 before the call: afterwards q_id is a node of
\* exactly the layers 0..=q_level, layers.len() = max(top, q_level) + 1,
\* every layer in top+1..=q_level holds only q_id with an empty edge set,
\* and the enter point is q_id if q_level > top and unchanged otherwise.
InsertWithEnterPoint ==
    [][(last'.op = "insert" /\ enter_point # <<>>)
           => /\ ~aborted'
              /\ InsertedAbove(next_element_id, last'.args[2], Len(layers) - 1)]_vars

\* C24: insert_level(q, q_level) on an index with no enter point: q_id is
\* added with an empty edge set to every layer 0..=q_level and to no other,
\* no existing node's edge set changes, and the enter point becomes q_id.
InsertWithoutEnterPoint ==
    [][(last'.op = "insert" /\ enter_point = <<>>)
           => /\ ~aborted'
              /\ last'.ret = <<next_element_id>>
              /\ Len(layers') = Max(Len(layers), last'.args[2] + 1)
              /\ layers_of(layers', next_element_id) = 1..(last'.args[2] + 1)
              /\ \A i \in 1..(last'.args[2] + 1) : layers'[i][next_element_id] = {}
              /\ \A i \in 1..Len(layers) : \A n \in DOMAIN layers[i] :
                     n \in DOMAIN layers'[i] /\ layers'[i][n] = layers[i][n]
              /\ enter_point' = <<next_element_id>>]_vars

\* the first insert of an index took level 1 and made two layers
InsertWithoutEnterPointWitness ==
    /\ last.op = "insert"
    /\ ~aborted
    /\ last.ret = <<0>>
    /\ last.args[2] = 1
    /\ Len(layers) = 2
    /\ enter_point = <<0>>

\* the edge set of n on layer i once the new node q_id has been attached to it
Attached(i, n, q_id) == layers[i][n] \cup {q_id}

\* the selector extends the candidates by their neighbours
Extending == neighbors \in {"HeuristicExt", "HeuristicExtKeep"}

\* the ids the edge sets of the members of S hold on layer i, before or
\* after the step
NeighboursOf(i, S) ==
    UNION {(IF e \in DOMAIN layers[i] THEN layers[i][e] ELSE {})
               \cup (IF e \in DOMAIN layers'[i] THEN layers'[i][e] ELSE {}) : e \in S}

\* an insert returns: on every layer it links, the new node and the
\* neighbours it was attached to are within m_max; a neighbour that the
\* attach took over m_max holds ids of From(i, n), and the others hold the
\* edges they had and the new node
ShrinkStep(q_id, q_level, From(_, _)) ==
    \A i \in 1..Min(Len(layers), q_level + 1) :
        /\ Cardinality(layers'[i][q_id]) <= m_max_of(i - 1)
        /\ \A n \in layers'[i][q_id] :
               /\ Cardinality(layers'[i][n]) <= m_max_of(i - 1)
               /\ IF Cardinality(Attached(i, n, q_id)) > m_max_of(i - 1)
                  THEN /\ layers'[i][n] \subseteq From(i, n)
                       /\ n \notin layers'[i][n]
                       /\ <<i - 1, n>> \in replaced'
                  ELSE layers'[i][n] = Attached(i, n, q_id)

\* the edges n has when it is shrunk
OwnEdges(i, n) == Attached(i, n, next_element_id)

\* the edges n has when it is shrunk, with their neighbours on the layer
\* under an extending selector
OwnOrExtendedEdges(i, n) ==
    IF Extending THEN OwnEdges(i, n) \cup NeighboursOf(i, OwnEdges(i, n))
    ELSE OwnEdges(i, n)

\* C25: shrink step, in an insert-only history: when insert_element has
\* linked layer lc, the new node and every neighbour it was attached to
\* have at most m_max(lc) edges, and a neighbour whose degree exceeded
\* m_max after the attach has had its edge set replaced by the selector's
\* choice among its own current edges.
ShrinkAmongOwnEdges ==
    [][(last'.op = "insert" /\ ~aborted' /\ InsertOnly /\ enter_point # <<>>)
           => ShrinkStep(next_element_id, last'.args[2], OwnEdges)]_vars

\* the shrink step where m and m0 are positive: the selector's choice is
\* among the neighbour's own current edges under Simple, Heuristic and
\* HeuristicKeep, and among its current edges and their neighbours on the
\* layer under HeuristicExt and HeuristicExtKeep
ShrinkAmongExtendedEdges ==
    [][(last'.op = "insert" /\ ~aborted' /\ InsertOnly /\ enter_point # <<>>
            /\ m >= 1 /\ m0 >= 1)
           => ShrinkStep(next_element_id, last'.args[2], OwnOrExtendedEdges)]_vars

\* a shrunk neighbour of the last element holds an id that was none of its edges
ShrinkExtendedWitness ==
    /\ last.op = "insert"
    /\ ~aborted
    /\ Extending
    /\ \E i \in layers_of(layers, last.ret[1]) : \E n \in layers[i][last.ret[1]] :
           /\ <<i - 1, n>> \in replaced
           /\ layers[i][n] # {}
           /\ \A b \in layers[i][n] : b # last.ret[1] /\ n \notin layers[i][b]

(***************************************************************************)
(* search_layer on the layers of the index.                                *)
(***************************************************************************)
\* the widths a layer is searched with
SearchWidths == {1, 2}

\* the turn of the inner loop that takes st to st2 for e_id puts e_id into
\* the result only when the result is short of ef or e_id is nearer than
\* the furthest entry
AdmitsNearer(q, e_id, st, st2, ef) ==
    (e_id \in queue_ids(st2.w) \ queue_ids(st.w)) =>
        \/ Len(st.w) < ef
        \/ calculate(elements[e_id], q) < st.w[Len(st.w)][1]

\* the inner loop over a neighbourhood: [ok, st], where ok tells that
\* every turn admitted nearer elements only and st is the state it ends in
RECURSIVE NeighbourhoodAdmitsNearer(_, _, _, _)
NeighbourhoodAdmitsNearer(q, neighbourhood, st, ef) ==
    IF neighbourhood = <<>> THEN [ok |-> TRUE, st |-> st]
    ELSE LET st2 == visit(elements, q, Head(neighbourhood), st, ef)
             rest == NeighbourhoodAdmitsNearer(q, Tail(neighbourhood), st2, ef)
         IN [ok |-> AdmitsNearer(q, Head(neighbourhood), st, st2, ef) /\ rest.ok,
             st |-> rest.st]

\* every turn of the search that starts in st admits nearer elements only
RECURSIVE SearchAdmitsNearer(_, _, _, _)
SearchAdmitsNearer(q, st, ef, l) ==
    IF st.candidates = <<>> THEN TRUE
    ELSE LET c == Head(st.candidates)
             st1 == [st EXCEPT !.candidates = Tail(@)]
         IN IF c[1] > st.f_dist THEN TRUE
            ELSE IF c[2] \in DOMAIN l
                 THEN LET n == NeighbourhoodAdmitsNearer(q, iter(l[c[2]]), st1, ef)
                      IN n.ok /\ SearchAdmitsNearer(q, n.st, ef, l)
                 ELSE SearchAdmitsNearer(q, st1, ef, l)

\* the state search_layer starts its loop in
SearchStart(candidates, visited, w) ==
    [candidates |-> candidates, visited |-> visited, w |-> w,
     f_dist |-> w[Len(w)][1]]

\* the live nodes of layer i
LiveNodes(i) == DOMAIN layers[i] \cap live

\* C26: search_layer width bound: on every layer of the index, for every
\* query and every ef >= 1, search_layer_single from a node of the layer
\* returns a non-empty queue of at most ef entries, search_layer_multi
\* seeded with s entries returns at most max(ef, s) entries, and an element
\* enters the result only if its distance is below the current maximum of
\* the result or the result holds fewer than ef entries.
SearchLayerWidth ==
    \A i \in 1..Len(layers) : \A q \in Points : \A ef \in SearchWidths :
        /\ \A ep_id \in LiveNodes(i) :
               LET ep == get_pn(elements, q, ep_id)
                   r == search_layer_single(elements, q, ep, ef, layers[i])
               IN /\ ~r.abort
                  /\ Len(r.w) \in 1..ef
                  /\ SearchAdmitsNearer(q, SearchStart(from(ep), {ep_id}, from(ep)),
                                        ef, layers[i])
        /\ \A S \in SUBSET LiveNodes(i) :
               S # {} =>
                   LET c == queue_of(q, iter(S))
                       r == search_layer_multi(elements, q, c, ef, layers[i])
                   IN /\ ~r.abort
                      /\ Len(r.w) <= Max(ef, Len(c))
                      /\ SearchAdmitsNearer(q, SearchStart(c, S, c), ef, layers[i])

\* a search of width 1 returns a node other than the one it started from,
\* a search of width 2 leaves a node it has reached out of its two
\* entries, and a search seeded with three entries returns three
SearchLayerWidthWitness ==
    /\ ~aborted
    /\ Len(layers) >= 1
    /\ \E q \in Points : \E ep_id \in LiveNodes(1) :
           LET ep == get_pn(elements, q, ep_id) IN
           /\ search_layer_single(elements, q, ep, 1, layers[1]).w[1][2] # ep_id
           /\ Len(search_layer_single(elements, q, ep, 2, layers[1]).w) = 2
           /\ Cardinality(layers[1][ep_id]) = 2
    /\ \E q \in Points : \E S \in SUBSET LiveNodes(1) :
           /\ Cardinality(S) = 3
           /\ Len(search_layer_multi(elements, q, queue_of(q, iter(S)), 2,
                                     layers[1]).w) = 3

\* the ids the records hold
HeldIds == {doc_ids[r] : r \in DOMAIN doc_ids}

\* C27: resolve(record): for a record that already has a DocId it returns
\* that DocId and changes nothing; for a record without one it returns the
\* smallest id of the free set and removes it from the free set when the
\* free set is non-empty, and otherwise a new id equal to the current
\* length of the slot array; afterwards the record maps to the returned id.
ResolveAllocates ==
    [][last'.op = "resolve" =>
           LET rid == last'.args[1]
               doc_id == last'.ret[1]
           IN /\ IF rid \in DOMAIN doc_ids
                 THEN /\ doc_id = doc_ids[rid]
                      /\ UNCHANGED <<doc_ids, ids_doc, available>>
                 ELSE IF available # {}
                 THEN /\ doc_id \in available
                      /\ \A d \in available : doc_id <= d
                      /\ available' = available \ {doc_id}
                 ELSE /\ doc_id = Len(ids_doc)
                      /\ doc_id \notin HeldIds
                      /\ available' = available
              /\ DOMAIN doc_ids' = DOMAIN doc_ids \cup {rid}
              /\ doc_ids'[rid] = doc_id
              /\ \A r \in DOMAIN doc_ids : doc_ids'[r] = doc_ids[r]]_vars

\* a resolve has taken the smaller of two free ids, and an earlier one
\* has taken the length of the slot array
ResolveAllocatesWitness ==
    /\ last.op = "resolve"
    /\ available # {}
    /\ \A d \in available : last.ret[1] < d
    /\ \E r \in DOMAIN doc_ids : doc_ids[r] > last.ret[1]

(***************************************************************************)
(* The selector on the queues of the index.                                *)
(***************************************************************************)
\* C28: every selector policy returns a set of at most m_max ids, for every
\* candidate queue and every m_max the parameters allow.
SelectWithinMMax ==
    last.op = "select" => Cardinality(last.ret) <= last.args[4]

\* C29: the Heuristic policy, for every non-empty candidate queue and
\* m_max >= 1, returns exactly one id, a candidate of minimum distance.
HeuristicReturnsNearest ==
    (last.op = "select" /\ neighbors = "Heuristic" /\ last.args[3] # <<>>
         /\ last.args[4] >= 1)
        => \E i \in 1..Len(last.args[3]) :
               /\ last.ret = {last.args[3][i][2]}
               /\ \A j \in 1..Len(last.args[3]) :
                      last.args[3][i][1] <= last.args[3][j][1]

\* Heuristic has returned one id of three candidates at three distances,
\* with an m_max of 2
HeuristicReturnsNearestWitness ==
    /\ last.op = "select"
    /\ neighbors = "Heuristic"
    /\ Len(last.args[3]) = 3
    /\ last.args[3][1][1] < last.args[3][2][1]
    /\ last.args[3][2][1] < last.args[3][3][1]
    /\ last.args[4] = 2
    /\ Cardinality(last.ret) = 1

\* C30: the Simple policy returns exactly the min(m_max, |C|) candidates of
\* smallest distance in the candidate queue C.
SimpleReturnsNearest ==
    (last.op = "select" /\ neighbors = "Simple")
        => LET c == last.args[3] IN
           /\ last.ret \subseteq queue_ids(c)
           /\ Cardinality(last.ret) = Min(last.args[4], Len(c))
           /\ \A i, j \in 1..Len(c) :
                  (c[i][2] \in last.ret /\ c[j][2] \notin last.ret)
                      => c[i][1] <= c[j][1]

\* Simple has returned the two nearest of three candidates, the third
\* being further away
SimpleReturnsNearestWitness ==
    /\ last.op = "select"
    /\ neighbors = "Simple"
    /\ Len(last.args[3]) = 3
    /\ last.args[3][2][1] < last.args[3][3][1]
    /\ last.args[4] = 2
    /\ last.ret = {last.args[3][1][2], last.args[3][2][2]}

\* the entries of a queue whose ids are not in r, in the order of the queue
RECURSIVE Rejected(_, _)
Rejected(c, r) ==
    IF c = <<>> THEN <<>>
    ELSE IF Head(c)[2] \in r THEN Rejected(Tail(c), r)
    ELSE <<Head(c)>> \o Rejected(Tail(c), r)

\* C31: the HeuristicKeep policy, for a candidate queue C of distinct ids
\* and m_max >= 1, returns exactly min(m_max, |C|) ids: the ids the
\* Heuristic rule accepts plus, when fewer than m_max were accepted, the
\* earliest-rejected ids taken in rejection (FIFO) order.
HeuristicKeepFills ==
    (last.op = "select" /\ neighbors = "HeuristicKeep" /\ last.args[4] >= 1)
        => LET c == last.args[3]
               m_max == last.args[4]
               kept == heuristic(c, m_max)
           IN /\ Cardinality(last.ret) = Min(m_max, Len(c))
              /\ last.ret = kept \cup
                     queue_ids(take(Rejected(c, kept),
                                    m_max - Cardinality(kept)))

\* HeuristicKeep has returned the two nearest of three candidates: the one
\* Heuristic accepts and the first of the two it rejects
HeuristicKeepFillsWitness ==
    /\ last.op = "select"
    /\ neighbors = "HeuristicKeep"
    /\ Len(last.args[3]) = 3
    /\ last.args[4] = 2
    /\ last.ret = {last.args[3][1][2], last.args[3][2][2]}

\* the distances of a queue are pairwise distinct
DistinctDistances(c) ==
    \A i, j \in 1..Len(c) : i # j => c[i][1] # c[j][1]

\* C40: the HeuristicKeep policy and the Simple policy return the same set
\* for every candidate queue with pairwise-distinct distances and every
\* m_max >= 1.
HeuristicKeepIsSimple ==
    (last.op = "select" /\ last.args[4] >= 1 /\ DistinctDistances(last.args[3]))
        => /\ neighbors = "HeuristicKeep" => last.ret = simple(last.args[3], last.args[4])
           /\ neighbors = "Simple" => last.ret = heuristic_keep(last.args[3], last.args[4])

\* Simple has returned two of three candidates at three distances
HeuristicKeepIsSimpleWitness ==
    /\ last.op = "select"
    /\ neighbors = "Simple"
    /\ Len(last.args[3]) = 3
    /\ DistinctDistances(last.args[3])
    /\ last.args[4] = 2
    /\ Cardinality(last.ret) = 2

(***************************************************************************)
(* Candidate extension on the layers of the index.                         *)
(***************************************************************************)
\* the entries of a queue
Entries(c) == {c[k] : k \in 1..Len(c)}

\* extand for the element q_id at q_pt on the candidates S of layer i - 1:
\* the queue keeps its entries, holds no id twice and never q_id, and each
\* entry it gains is a live element adjacent to a candidate, with its
\* distance to q_pt
ExtendsBy(i, q_id, q_pt, S) ==
    LET c == queue_of(q_pt, iter(S))
        e == extand(elements, layers[i], q_id, q_pt, c)
    IN /\ Entries(c) \subseteq Entries(e)
       /\ q_id \notin queue_ids(e)
       /\ Cardinality(queue_ids(e)) = Len(e)
       /\ \A x \in Entries(e) \ Entries(c) :
              /\ x[2] \in live
              /\ \E a \in S : x[2] \in layers[i][a]
              /\ x[1] = calculate(q_pt, elements[x[2]])

\* C32: candidate extension (HeuristicExt, HeuristicExtKeep): after
\* extending, the candidate queue contains every original candidate, never
\* contains q_id, contains no id twice, and every added id is a live element
\* adjacent in the layer to an original candidate, pushed with its distance
\* to q.
ExtensionSound ==
    \A i \in 1..Len(layers) :
        \A q_id \in DOMAIN layers[i] \cup {next_element_id} :
            \A q_pt \in Points :
                \A S \in SUBSET (LiveNodes(i) \ {q_id}) :
                    ExtendsBy(i, q_id, q_pt, S)

\* the extension for a node of layer 0 gains a neighbour of its one
\* candidate and leaves out the node itself, another neighbour of it
ExtensionSoundWitness ==
    /\ ~aborted
    /\ Len(layers) >= 1
    /\ \E q_id \in LiveNodes(1) : \E a \in LiveNodes(1) \ {q_id} :
           /\ q_id \in layers[1][a]
           /\ Len(extand(elements, layers[1], q_id, elements[q_id],
                         queue_of(elements[q_id], <<a>>))) = 2

\* C33: after any sequence of insert and remove operations, enter_point is
\* set exactly when at least one element is live, and when set it is the id
\* of a live element.
EnterPointLive ==
    /\ enter_point # <<>> <=> live # {}
    /\ enter_point # <<>> => enter_point[1] \in live

\* C34: after any sequence of index_document and remove_document calls, no
\* DocId that is in the free set is a member of any VecDocs doc-set.
FreedDocIdUnreferenced ==
    \A v \in DOMAIN vec_docs : vec_docs[v].docs \cap available = {}

\* C35: after any sequence of resolve and remove operations on the document
\* map, two different records that both currently have a DocId never have
\* the same DocId.
DocIdsInjective ==
    \A r1, r2 \in DOMAIN doc_ids : r1 # r2 => doc_ids[r1] # doc_ids[r2]

\* three records hold ids, the last of them an id that had been freed
DocIdsInjectiveWitness ==
    /\ Cardinality(DOMAIN doc_ids) = 3
    /\ last.op = "resolve"
    /\ last.ret[1] + 1 < Len(ids_doc)
    /\ \E r \in DOMAIN doc_ids : doc_ids[r] > last.ret[1]

\* C36: greedy descent: on every layer, search_layer_single(q, ep, 1, L)
\* with a live ep returns a single element e such that dist(e, q) <=
\* dist(ep, q) and no live neighbour of e in layer L is strictly closer to q
\* than e.
GreedyDescent ==
    \A i \in 1..Len(layers) : \A q \in Points : \A ep_id \in live :
        LET ep == get_pn(elements, q, ep_id)
            r == search_layer_single(elements, q, ep, 1, layers[i])
        IN /\ ~r.abort
           /\ Len(r.w) = 1
           /\ r.w[1][2] \in live
           /\ r.w[1][1] = calculate(elements[r.w[1][2]], q)
           /\ r.w[1][1] <= ep[1]
           /\ r.w[1][2] \in DOMAIN layers[i] =>
                  \A n \in layers[i][r.w[1][2]] \cap live :
                      calculate(elements[n], q) >= r.w[1][1]

\* a descent on layer 0 ends two edges away from the node it started from
GreedyDescentWitness ==
    /\ ~aborted
    /\ Len(layers) >= 1
    /\ \E q \in Points : \E ep_id \in LiveNodes(1) :
           LET e == search_layer_single(elements, q, get_pn(elements, q, ep_id), 1,
                                        layers[1]).w[1][2]
           IN /\ e # ep_id
              /\ e \notin layers[1][ep_id]

\* C37: exhaustive search: when ef is at least the number of live nodes of
\* layer L, search_layer_single(q, ep, ef, L) with a live ep returns exactly
\* ep together with every live element reachable from ep by following edges
\* of L through live elements.
ExhaustiveSearch ==
    \A i \in 1..Len(layers) : \A q \in Points : \A ep_id \in live :
        \A ef \in {Cardinality(LiveNodes(i)), Cardinality(LiveNodes(i)) + 1} :
            LET r == search_layer_single(elements, q, get_pn(elements, q, ep_id), ef,
                                         layers[i])
            IN /\ ~r.abort
               /\ queue_ids(r.w) = reach(elements, layers[i], {ep_id})
               /\ Len(r.w) = Cardinality(queue_ids(r.w))

\* a search of layer 0 as wide as the layer returns three elements, one of
\* them two edges away from the node it started from
ExhaustiveSearchWitness ==
    /\ ~aborted
    /\ Len(layers) >= 1
    /\ Cardinality(LiveNodes(1)) = 3
    /\ \E q \in Points : \E ep_id \in LiveNodes(1) :
           /\ Len(search_layer_single(elements, q, get_pn(elements, q, ep_id), 3,
                                      layers[1]).w) = 3
           /\ Cardinality(layers[1][ep_id]) = 1

\* the turn of the inner loop that takes st to st2 for e_id: a visited id
\* is passed over; an id not yet visited is marked, and the candidates gain
\* at most this id, with its distance to q
MarksOnce(q, e_id, st, st2) ==
    IF e_id \in st.visited THEN st2 = st
    ELSE /\ st2.visited = st.visited \cup {e_id}
         /\ Len(st2.candidates) <= Len(st.candidates) + 1
         /\ \A x \in Entries(st2.candidates) \ Entries(st.candidates) :
                x = <<calculate(elements[e_id], q), e_id>>

\* the inner loop over a neighbourhood: [ok, st], where ok tells that
\* every turn marked its id once and st is the state it ends in
RECURSIVE NeighbourhoodMarksOnce(_, _, _, _)
NeighbourhoodMarksOnce(q, neighbourhood, st, ef) ==
    IF neighbourhood = <<>> THEN [ok |-> TRUE, st |-> st]
    ELSE LET st2 == visit(elements, q, Head(neighbourhood), st, ef)
             rest == NeighbourhoodMarksOnce(q, Tail(neighbourhood), st2, ef)
         IN [ok |-> MarksOnce(q, Head(neighbourhood), st, st2) /\ rest.ok,
             st |-> rest.st]

\* the search that starts in st: [ok, pops], where ok tells that every
\* turn marked its id once and pops counts the candidates popped
RECURSIVE SearchMarksOnce(_, _, _, _)
SearchMarksOnce(q, st, ef, l) ==
    IF st.candidates = <<>> THEN [ok |-> TRUE, pops |-> 0]
    ELSE LET c == Head(st.candidates)
             st1 == [st EXCEPT !.candidates = Tail(@)]
         IN IF c[1] > st.f_dist THEN [ok |-> TRUE, pops |-> 1]
            ELSE IF c[2] \in DOMAIN l
                 THEN LET n == NeighbourhoodMarksOnce(q, iter(l[c[2]]), st1, ef)
                          rest == SearchMarksOnce(q, n.st, ef, l)
                      IN [ok |-> n.ok /\ rest.ok, pops |-> rest.pops + 1]
                 ELSE LET rest == SearchMarksOnce(q, st1, ef, l)
                      IN [ok |-> rest.ok, pops |-> rest.pops + 1]

\* C38: search_layer terminates on every finite layer graph, including
\* graphs with cycles: each ElementId is marked visited, has its distance
\* computed and is pushed onto the candidate queue at most once per search,
\* so that a search seeded with live nodes pops at most as many candidates
\* as there are live elements.
SearchVisitsOnce ==
    \A i \in 1..Len(layers) : \A q \in Points : \A ef \in SearchWidths :
        \A S \in SUBSET LiveNodes(i) :
            S # {} =>
                LET c == queue_of(q, iter(S))
                    r == SearchMarksOnce(q, SearchStart(c, S, c), ef, layers[i])
                IN r.ok /\ r.pops <= Cardinality(live)

\* a search of width 2 from one node of a layer of three nodes that lie on
\* a cycle pops all three
SearchVisitsOnceWitness ==
    /\ ~aborted
    /\ Len(layers) >= 1
    /\ Cardinality(LiveNodes(1)) = 3
    /\ \A n \in LiveNodes(1) : Cardinality(layers[1][n]) = 2
    /\ \E q \in Points : \E ep_id \in LiveNodes(1) :
           LET c == queue_of(q, <<ep_id>>) IN
           SearchMarksOnce(q, SearchStart(c, {ep_id}, c), 2, layers[1]).pops = 3

\* C39: every entry returned by Hnsw.knn_search is the id of a live element
\* paired with its distance to the query, and no ElementId appears twice in
\* one result.
KnnEntriesLive ==
    (last.op = "knn_search" /\ ~aborted)
        => /\ \A x \in Entries(last.ret) :
                  /\ x[2] \in live
                  /\ x[1] = calculate(elements[x[2]], last.args[1])
           /\ Cardinality(queue_ids(last.ret)) = Len(last.ret)

\* a search has returned three elements, two of them at the same distance
KnnEntriesLiveWitness ==
    /\ last.op = "knn_search"
    /\ ~aborted
    /\ Len(last.ret) = 3
    /\ last.ret[2][1] = last.ret[3][1]
====
